---- MODULE Spec2Model ----
(***************************************************************************)
(* The lesson-scheduling core of Dryvo: server/api/blueprints/lessons.py.  *)
(* The store is the lessons table.  Every request handler is an operator   *)
(* from the store and the request to the outcome of the request (the table *)
(* it leaves, its response, the push it sends), and one action that makes  *)
(* that outcome the next state.                                            *)
(* Places, price and comments of a lesson are carried through the handlers *)
(* unchanged by any rule examined here and are left out of the rows.  So   *)
(* is the creator column: it is written once, as the requesting user, when *)
(* the row is made, and read only by new_lesson within that same request.  *)
(***************************************************************************)
EXTENDS Integers, Sequences, FiniteSets, TLC

\* -------------------------------------------------- bounds, and the clock

\* Lessons the table may hold (creation is disabled beyond it).
MaxLessons == 2
\* Hour slots are 0 .. MaxDate.
MaxDate == 2
\* datetime.utcnow() while the requests arrive: the slots before it are past.
utcnow == 1
\* Optional keys ("duration", "student_id") one request body may carry.
MaxExtraKeys == 1
\* Topics are 1 .. MaxTopic; a submission may also name MaxTopic + 1, no topic.
MaxTopic == 2
\* Topic ids one submission may carry, over its buckets.
MaxSubmitted == 2
\* Topic associations one lesson may hold (submission is disabled beyond it).
MaxAssociations == 2
\* Approve requests served side by side.
MaxRequests == 2

\* ------------------------------------------------------------- the fixture

Teachers == {"t1", "t2"}
Students == {"s1", "s2"}
Users == Teachers \cup Students

\* student.teacher: both students are taught by t1.
teacher_of(s) == "t1"

\* Student.get_by_id: the ids a request may carry and the student each names.
StudentIds == Students

Dates == 0 .. MaxDate

\* teacher.lesson_duration, and the duration a request may carry.
DefaultDuration == 40
CustomDuration == 90
lesson_duration(t) == DefaultDuration

\* user.firebase_token: who holds a push token.
firebase_token(u) == u \in {"t1", "t2", "s1"}

\* lessons: the lessons table, id -> row.  served: the route of the request
\* served last and the number of topic ids it carried; response, notified: its
\* response and the push it sent.  inflight: the approve requests that are
\* being served side by side, each with how far it has got.
VARIABLES lessons, served, response, notified, inflight

vars == <<lessons, served, response, notified, inflight>>

\* ------------------------------------------------------------ the requests

\* The JSON body of a create / update request: a dict over some of the keys
\* "date", "duration" and "student_id" (a key left out is data.get(key) = None).
Empty == [k \in {} |-> 0]
Part(k, values) == {Empty} \cup {(k :> v) : v \in values}

Bodies ==
    {body \in {d @@ u @@ s : d \in Part("date", Dates),
                             u \in Part("duration", {CustomDuration}),
                             s \in Part("student_id", StudentIds)} :
        Cardinality(DOMAIN body \ {"date"}) <= MaxExtraKeys}

has(data, k) == k \in DOMAIN data

\* RouteError(message, code): the uniform error response.
RouteError(message, code) == [status |-> code, message |-> message]

NoPush == [to |-> "", title |-> ""]

\* FCM.notify, guarded by the recipient's token as every handler guards it.
notify(u, title) ==
    IF firebase_token(u) THEN [to |-> u, title |-> title] ELSE NoPush

LessonIds == DOMAIN lessons

\* ids the requests name: every id the table holds, and the next one, which it
\* does not hold.
RequestIds == 1 .. (Cardinality(LessonIds) + 1)

\* Optional[Lesson]: None, or the lesson being edited.
None == <<>>
Some(row) == <<row>>

\* What a request leaves behind: the table, the response, the push sent.
Outcome(table, answer, push) ==
    [lessons |-> table, response |-> answer, notified |-> push]

\* The request ended in a RouteError: nothing is written, nothing is pushed.
Failed(error) == Outcome(lessons, error, NoPush)

\* --------------------------------------------------------- the collaborators

\* Teacher's working hours: every slot of the day.
working_hours(teacher) == Dates

\* Teacher.available_hours: the teacher's working slots that no lesson of the
\* teacher, approved or pending and not deleted, already covers.
available_hours(teacher) ==
    {d \in working_hours(teacher) :
        ~ \E i \in LessonIds :
            /\ lessons[i].teacher = teacher
            /\ ~ lessons[i].deleted
            /\ lessons[i].date = d}

\* Student.get_by_id(data.get("student_id"))
Student_get_by_id(data) ==
    IF has(data, "student_id") /\ data["student_id"] \in Students
    THEN Some(data["student_id"])
    ELSE None

\* Lesson.create: the new row, with the next id, not deleted, and no topics yet.
Lesson_create(fields) ==
    [id |-> Cardinality(LessonIds) + 1,
     date |-> fields.date,
     student |-> fields.student,
     teacher |-> fields.teacher,
     duration |-> fields.duration,
     is_approved |-> fields.is_approved,
     deleted |-> FALSE,
     topics |-> <<>>]

\* Lesson.update_only_changed_fields: every field whose submitted value
\* differs from the stored one takes the submitted value.
update_only_changed_fields(row, fields) ==
    [k \in DOMAIN row |->
        IF k \in DOMAIN fields /\ fields[k] # row[k] THEN fields[k] ELSE row[k]]

\* teacher_required: the decorator's answer to a user who is no teacher.
NotATeacher == RouteError("User is not a teacher.", 401)

\* ------------------------------------------------------------ get_lesson_data

\* Mutants of line 92: the flag is never set; the flag is set whoever submits.
is_approved_never(user) == FALSE
is_approved_always(user) == TRUE

\* line 92: who submits decides the approval flag of the returned dict.
is_approved_for(user) == user \in Teachers

\* Mutant of lines 59-65: the availability of the hour is not looked up.
hour_always_available(user, date) == TRUE

\* lines 59-65: the requested date is among the teacher's available hours.
hour_available(user, date) == date \in available_hours(teacher_of(user))

\* Mutant of line 66: no exemption for the edited lesson's own date.
hour_refused_always(date, lesson) == TRUE

\* line 66: an unavailable hour is refused unless the lesson being edited
\* already sits at that date.
hour_refused(date, lesson) ==
    \/ lesson # None /\ date # lesson[1].date
    \/ lesson = None

\* Mutant of line 53: the past is refused for an edited lesson too.
in_the_past_also_edited(date, lesson) == date < utcnow

\* line 53: a new lesson in the past.
in_the_past(date, lesson) == lesson = None /\ date < utcnow

get_lesson_data(data, user, lesson) ==
    IF ~ has(data, "date")
    THEN [error |-> RouteError("Date is not valid.", 400)]
    ELSE IF in_the_past(data["date"], lesson)
    THEN [error |-> RouteError("Date is not valid.", 400)]
    ELSE IF user \in Students
    THEN IF ~ hour_available(user, data["date"]) /\ hour_refused(data["date"], lesson)
         THEN [error |-> RouteError("This hour is not available.", 400)]
         ELSE [date |-> data["date"],
               student |-> user,
               teacher |-> teacher_of(user),
               duration |-> lesson_duration(teacher_of(user)),
               is_approved |-> is_approved_for(user)]
    ELSE IF Student_get_by_id(data) = None
    THEN [error |-> RouteError("Student does not exist.", 400)]
    ELSE [date |-> data["date"],
          student |-> Student_get_by_id(data)[1],
          teacher |-> user,
          duration |-> IF has(data, "duration") THEN data["duration"]
                       ELSE lesson_duration(user),
          is_approved |-> is_approved_for(user)]

\* ------------------------------------------------------------- the handlers

\* Mutant of lines 197-201 and 226-230: the lesson is looked up among all lessons.
anybodys_lessons(user) == LessonIds

\* current_user.teacher.lessons, or current_user.student.lessons
user_lessons(user) ==
    {i \in LessonIds :
        IF user \in Teachers THEN lessons[i].teacher = user
        ELSE lessons[i].student = user}

\* lesson.creator of a lesson that new_lesson has just created: the user who
\* sent the request.
creator(user, row) == user

\* Mutant of lines 142-143: the push always goes to the teacher.
user_to_send_to_teacher(user, row) == row.teacher

\* lines 135-143: the teacher's user, or the student's when the teacher is the
\* creator (every row has a student).
user_to_send_to(user, row) ==
    IF creator(user, row) = row.teacher THEN row.student ELSE row.teacher

\* POST /lessons/
new_lesson(user, data) ==
    IF ~ has(data, "date")
    THEN Failed(RouteError("Please insert the date of the lesson.", 400))
    ELSE LET fields == get_lesson_data(data, user, None) IN
         IF has(fields, "error")
         THEN Failed(fields.error)
         ELSE LET row == Lesson_create(fields) IN
              Outcome(lessons @@ (row.id :> row),
                      [status |-> 201, message |-> "", data |-> row],
                      notify(user_to_send_to(user, row), "New Lesson!"))

\* Mutant of line 205: the row is removed.
hard_delete(table, id) == [i \in DOMAIN table \ {id} |-> table[i]]

\* Mutant of line 205: the flag is flipped, so a second delete clears it.
toggle_delete(table, id) == [table EXCEPT ![id].deleted = ~@]

\* line 205: lesson.update(deleted=True)
soft_delete(table, id) == [table EXCEPT ![id].deleted = TRUE]

\* DELETE /lessons/<lesson_id>
delete_lesson(user, lesson_id) ==
    IF lesson_id \notin user_lessons(user)
    THEN Failed(RouteError("Lesson does not exist.", 400))
    ELSE Outcome(soft_delete(lessons, lesson_id),
                 [status |-> 200, message |-> "Lesson deleted successfully."],
                 IF user = lessons[lesson_id].teacher
                 THEN notify(lessons[lesson_id].student, "Lesson Deleted")
                 ELSE notify(lessons[lesson_id].teacher, "Lesson Deleted"))

\* POST /lessons/<lesson_id>
update_lesson(user, lesson_id, data) ==
    IF lesson_id \notin user_lessons(user)
    THEN Failed(RouteError("Lesson does not exist", 404))
    ELSE LET fields == get_lesson_data(data, user, Some(lessons[lesson_id])) IN
         IF has(fields, "error")
         THEN Failed(fields.error)
         ELSE LET row == update_only_changed_fields(lessons[lesson_id], fields) IN
              Outcome([lessons EXCEPT ![lesson_id] = row],
                      [status |-> 200,
                       message |-> "Lesson updated successfully.",
                       data |-> row],
                      IF user = row.teacher
                      THEN notify(row.student, "Lesson Updated")
                      ELSE notify(row.teacher, "Lesson Updated"))

\* Mutant of lines 270-276: the query forgets Lesson.id != lesson.id.
same_time_lesson_with_self(lesson_id) ==
    {i \in LessonIds :
        /\ lessons[i].date = lessons[lesson_id].date
        /\ lessons[i].is_approved}

\* lines 270-276: another approved lesson at the same date.
same_time_lesson(lesson_id) ==
    {i \in LessonIds :
        /\ lessons[i].date = lessons[lesson_id].date
        /\ i # lesson_id
        /\ lessons[i].is_approved}

\* Mutant of line 266: the lesson is looked up among all lessons.
any_teacher_lessons(user) == LessonIds

\* line 266: current_user.teacher.lessons.filter_by(id=lesson_id)
teacher_lessons(user) == {i \in LessonIds : lessons[i].teacher = user}

\* lines 266-278: the RouteError the lookup and the conflict check end in, or
\* None when the request gets past them.
approve_check(user, lesson_id) ==
    IF user \notin Teachers
    THEN Some(NotATeacher)
    ELSE IF lesson_id \notin teacher_lessons(user)
    THEN Some(RouteError("Lesson does not exist", 404))
    ELSE IF same_time_lesson(lesson_id) # {}
    THEN Some(RouteError("There is another lesson at the same time.", 400))
    ELSE None

\* Mutant of line 280: the write looks for an approved lesson at the same date
\* again, in the table it writes to.
approve_write_checked(table, lesson_id) ==
    IF \E i \in DOMAIN table : /\ table[i].date = table[lesson_id].date
                               /\ i # lesson_id
                               /\ table[i].is_approved
    THEN Outcome(table,
                 RouteError("There is another lesson at the same time.", 400),
                 NoPush)
    ELSE Outcome([table EXCEPT ![lesson_id].is_approved = TRUE],
                 [status |-> 200, message |-> "Lesson approved."],
                 notify(table[lesson_id].student, "Lesson Approved"))

\* lines 280-289: lesson.update(is_approved=True) on the table as it is by
\* then, and the push to the student.
approve_write(table, lesson_id) ==
    Outcome([table EXCEPT ![lesson_id].is_approved = TRUE],
            [status |-> 200, message |-> "Lesson approved."],
            notify(table[lesson_id].student, "Lesson Approved"))

\* Mutant of lines 270-280: the flag is written before the conflict check.
approve_lesson_write_first(user, lesson_id) ==
    IF user \notin Teachers
    THEN Failed(NotATeacher)
    ELSE IF lesson_id \notin teacher_lessons(user)
    THEN Failed(RouteError("Lesson does not exist", 404))
    ELSE IF same_time_lesson(lesson_id) # {}
    THEN Outcome([lessons EXCEPT ![lesson_id].is_approved = TRUE],
                 RouteError("There is another lesson at the same time.", 400),
                 NoPush)
    ELSE approve_write(lessons, lesson_id)

\* GET /lessons/<lesson_id>/approve, served with no other request in between
approve_lesson(user, lesson_id) ==
    LET refused == approve_check(user, lesson_id)
    IN  IF refused # None
        THEN Failed(refused[1])
        ELSE approve_write(lessons, lesson_id)

\* GET /lessons/<lesson_id>: the response read off a table, which is left as
\* it is.
lesson(table, user, lesson_id) ==
    IF lesson_id \notin DOMAIN table
    THEN RouteError("Lesson does not exist.", 400)
    ELSE IF user \notin {table[lesson_id].student, table[lesson_id].teacher}
    THEN RouteError("You are not allowed to view this lesson.", 401)
    ELSE [status |-> 200, message |-> "", data |-> table[lesson_id]]

\* ---------------------------------------------------------- topic submission

\* Topic.get_by_id: the topics that exist.
Topics == 1 .. MaxTopic
TopicIds == 1 .. (MaxTopic + 1)

FINISHED_KEY == "finished"

RECURSIVE Sum(_)
Sum(lengths) == IF lengths = <<>> THEN 0 ELSE Head(lengths) + Sum(Tail(lengths))

SeqsOf(S, lengths) == UNION {[1 .. k -> S] : k \in lengths}

\* data.get("topics"): the buckets in the order of the request body, each key
\* at most once, each with its list of topic ids (none of the lists empty).
Submissions ==
    {topics \in SeqsOf([key : {"progress", FINISHED_KEY},
                        ids : SeqsOf(TopicIds, 1 .. MaxSubmitted)], 0 .. 2) :
        /\ \A a, b \in DOMAIN topics : topics[a].key = topics[b].key => a = b
        /\ Sum([b \in DOMAIN topics |-> Len(topics[b].ids)]) <= MaxSubmitted}

\* The (key, topic_id) pairs in the order the two loops of lines 173-174 visit them.
RECURSIVE items(_)
items(topics) ==
    IF topics = <<>> THEN <<>>
    ELSE [k \in DOMAIN Head(topics).ids |->
              [key |-> Head(topics).key, topic_id |-> Head(topics).ids[k]]]
         \o items(Tail(topics))

\* Mutant of lines 177-178: a topic id met again is appended again.
already_appended_never(topic_id, appended_ids) == FALSE

\* line 177: the topic id was appended earlier in this submission.
already_appended(topic_id, appended_ids) == topic_id \in appended_ids

\* lines 172-187: the loop body, over the pairs left; appended_ids and the
\* LessonTopic rows appended so far are carried along.
RECURSIVE append_topics(_, _, _)
append_topics(pairs, appended_ids, appended) ==
    IF pairs = <<>>
    THEN [appended |-> appended]
    ELSE LET key == Head(pairs).key
             topic_id == Head(pairs).topic_id
         IN  IF topic_id \notin Topics
             THEN [error |-> RouteError("Topic does not exist.", 400),
                   appended |-> appended]
             ELSE IF already_appended(topic_id, appended_ids)
             THEN append_topics(Tail(pairs), appended_ids, appended)
             ELSE append_topics(
                      Tail(pairs),
                      appended_ids \cup {topic_id},
                      Append(appended, [is_finished |-> key = FINISHED_KEY,
                                        topic_id |-> topic_id]))

\* Mutant of lines 185-189: each association is saved as it is appended, so
\* the ones appended before the RouteError stay.
update_topics_saving_each(user, lesson_id, topics) ==
    IF user \notin Teachers
    THEN Failed(NotATeacher)
    ELSE IF lesson_id \notin LessonIds
    THEN Failed(RouteError("Lesson does not exist.", 400))
    ELSE LET loop == append_topics(items(topics), {}, <<>>)
             row == [lessons[lesson_id] EXCEPT !.topics = @ \o loop.appended]
         IN  IF has(loop, "error")
             THEN Outcome([lessons EXCEPT ![lesson_id] = row], loop.error, NoPush)
             ELSE Outcome([lessons EXCEPT ![lesson_id] = row],
                          [status |-> 201, message |-> "", data |-> row],
                          NoPush)

\* POST /lessons/<lesson_id>/topics (every row has a student assigned; a
\* RouteError leaves the request before lesson.save(), so nothing is written)
update_topics(user, lesson_id, topics) ==
    IF user \notin Teachers
    THEN Failed(NotATeacher)
    ELSE IF lesson_id \notin LessonIds
    THEN Failed(RouteError("Lesson does not exist.", 400))
    ELSE LET loop == append_topics(items(topics), {}, <<>>) IN
         IF has(loop, "error")
         THEN Failed(loop.error)
         ELSE LET row == [lessons[lesson_id] EXCEPT !.topics = @ \o loop.appended] IN
              Outcome([lessons EXCEPT ![lesson_id] = row],
                      [status |-> 201, message |-> "", data |-> row],
                      NoPush)

\* ------------------------------------------------------------ topic progress

\* The lesson numbers lesson.lesson_number may give.
LessonNumbers == 1 .. (MaxLessons + 1)

\* Topic.for_lesson: the topics whose range of lesson numbers includes the
\* number; topic t applies to the lessons t and t + 1.
Topic_for_lesson(lesson_number) ==
    {t \in Topics : lesson_number \in t .. (t + 1)}

\* student.new_lesson_number: the student's approved lessons, plus one.
new_lesson_number(student) ==
    Cardinality({i \in LessonIds : /\ lessons[i].student = student
                                   /\ lessons[i].is_approved}) + 1

\* student.topics(is_finished): the topics an association of any of the
\* student's lessons carries with that flag.
Student_topics(student, is_finished) ==
    {t \in Topics :
        \E i \in LessonIds :
            /\ lessons[i].student = student
            /\ \E k \in DOMAIN lessons[i].topics :
                  lessons[i].topics[k] = [is_finished |-> is_finished, topic_id |-> t]}

\* [lt.topic_id for lt in lesson.topics.filter_by(is_finished=...).all()]
filter_by(lesson_topics, is_finished) ==
    LET matches(lt) == lt.is_finished = is_finished
        found == SelectSeq(lesson_topics, matches)
    IN  [k \in DOMAIN found |-> found[k].topic_id]

Range(list) == {list[k] : k \in DOMAIN list}

\* Mutant of lines 342-344: the topics finished in the lesson are not added back.
not_added_back(topics_for_lesson, finished_in_this_lesson) == topics_for_lesson

\* lines 342-344: the topics finished in this lesson are added back.
add_finished_in_this_lesson(topics_for_lesson, finished_in_this_lesson) ==
    topics_for_lesson \cup Range(finished_in_this_lesson)

\* lines 327-349, for the lesson found (None for a lesson not created yet),
\* its student and its number.
topics_for_lesson(found, student, lesson_number) ==
    LET for_number == (Student_topics(student, FALSE)
                           \cup Topic_for_lesson(lesson_number))
                          \ Student_topics(student, TRUE)
        in_progress == IF found = None THEN <<>>
                       ELSE filter_by(found[1].topics, FALSE)
        finished_in_this_lesson == IF found = None THEN <<>>
                                   ELSE filter_by(found[1].topics, TRUE)
    IN  [status |-> 200,
         message |-> "",
         available |-> IF found = None THEN for_number
                       ELSE add_finished_in_this_lesson(for_number,
                                                        finished_in_this_lesson),
         progress |-> in_progress,
         finished |-> finished_in_this_lesson]

\* topics(lesson_id): GET /lessons/<lesson_id>/topics?student_id=...  student is the row line 314
\* finds (None when there is none); lesson_number is what lesson.lesson_number
\* gives for the lesson found.
get_topics(lesson_id, student, lesson_number) ==
    IF lesson_id = 0 /\ student # None
    THEN topics_for_lesson(None, student[1], new_lesson_number(student[1]))
    ELSE IF lesson_id \notin LessonIds
    THEN RouteError("Lesson does not exist or not assigned.", 404)
    ELSE topics_for_lesson(Some(lessons[lesson_id]), lessons[lesson_id].student,
                           lesson_number)

\* -------------------------------------------------------- the state machine

\* The table after the teacher t1 has created a lesson for s1 at each of the
\* slots 1 and 2.
new_lesson_twice ==
    <<[id |-> 1, date |-> 1, student |-> "s1", teacher |-> "t1",
       duration |-> DefaultDuration, is_approved |-> TRUE, deleted |-> FALSE,
       topics |-> <<>>],
      [id |-> 2, date |-> 2, student |-> "s1", teacher |-> "t1",
       duration |-> DefaultDuration, is_approved |-> TRUE, deleted |-> FALSE,
       topics |-> <<>>]>>

Requests == 1 .. MaxRequests

\* No request is part-way through.
Idle == [r \in Requests |-> [pc |-> "idle", user |-> "", lesson_id |-> 0]]

Init ==
    /\ lessons = <<>>
    /\ served = [route |-> "", topic_ids |-> 0]
    /\ response = [status |-> 0, message |-> ""]
    /\ notified = NoPush
    /\ inflight = Idle

\* The request is served: its outcome is the next state.  (The outcome is
\* bound by \E so that it is computed once.)
Handle(route, topic_ids, outcome) ==
    \E after \in {outcome} :
        /\ Cardinality(DOMAIN after.lessons) <= MaxLessons
        /\ \A i \in DOMAIN after.lessons :
              Len(after.lessons[i].topics) <= MaxAssociations
        /\ served' = [route |-> route, topic_ids |-> topic_ids]
        /\ lessons' = after.lessons
        /\ response' = after.response
        /\ notified' = after.notified
        /\ UNCHANGED inflight

NewLesson(user, data) == Handle("new_lesson", 0, new_lesson(user, data))

UpdateLesson(user, lesson_id, data) ==
    Handle("update_lesson", 0, update_lesson(user, lesson_id, data))

DeleteLesson(user, lesson_id) ==
    Handle("delete_lesson", 0, delete_lesson(user, lesson_id))

ApproveLesson(user, lesson_id) ==
    Handle("approve_lesson", 0, approve_lesson(user, lesson_id))

Next ==
    \/ \E user \in Users, data \in Bodies : NewLesson(user, data)
    \/ \E user \in Users, lesson_id \in RequestIds, data \in Bodies :
          UpdateLesson(user, lesson_id, data)
    \/ \E user \in Users, lesson_id \in RequestIds : DeleteLesson(user, lesson_id)
    \/ \E user \in Users, lesson_id \in RequestIds : ApproveLesson(user, lesson_id)

Spec == Init /\ [][Next]_vars

\* Topic submissions, from a table that holds two lessons the teacher t1 has
\* created for the student s1.
InitTopics ==
    /\ lessons = new_lesson_twice
    /\ served = [route |-> "new_lesson", topic_ids |-> 0]
    /\ response = [status |-> 201, message |-> "", data |-> lessons[2]]
    /\ notified = notify("s1", "New Lesson!")
    /\ inflight = Idle

UpdateTopics(user, lesson_id, topics) ==
    Handle("update_topics", Len(items(topics)), update_topics(user, lesson_id, topics))

NextTopics ==
    \E user \in Users, lesson_id \in RequestIds, topics \in Submissions :
        UpdateTopics(user, lesson_id, topics)

TopicsSpec == InitTopics /\ [][NextTopics]_vars

\* The requests again, with FCM.notify either delivering the push or raising.
\* The handlers call it after Lesson.create / lesson.update has committed, so
\* the request that meets a push that raises ends in a server error with the
\* table as written.
ServerError == [status |-> 500, message |-> "Internal Server Error"]

\* Mutant: the write is undone when the push raises.
FCM_notify_undoes(raises, outcome) ==
    IF raises /\ outcome.notified # NoPush THEN Failed(ServerError) ELSE outcome

FCM_notify(raises, outcome) ==
    IF raises /\ outcome.notified # NoPush
    THEN Outcome(outcome.lessons, ServerError, NoPush)
    ELSE outcome

NewLessonFCM(user, data, raises) ==
    Handle("new_lesson", 0, FCM_notify(raises, new_lesson(user, data)))

UpdateLessonFCM(user, lesson_id, data, raises) ==
    Handle("update_lesson", 0, FCM_notify(raises, update_lesson(user, lesson_id, data)))

DeleteLessonFCM(user, lesson_id, raises) ==
    Handle("delete_lesson", 0, FCM_notify(raises, delete_lesson(user, lesson_id)))

ApproveLessonFCM(user, lesson_id, raises) ==
    Handle("approve_lesson", 0, FCM_notify(raises, approve_lesson(user, lesson_id)))

NextFCM ==
    \/ \E user \in Users, data \in Bodies, raises \in BOOLEAN :
          NewLessonFCM(user, data, raises)
    \/ \E user \in Users, lesson_id \in RequestIds, data \in Bodies, raises \in BOOLEAN :
          UpdateLessonFCM(user, lesson_id, data, raises)
    \/ \E user \in Users, lesson_id \in RequestIds, raises \in BOOLEAN :
          DeleteLessonFCM(user, lesson_id, raises)
    \/ \E user \in Users, lesson_id \in RequestIds, raises \in BOOLEAN :
          ApproveLessonFCM(user, lesson_id, raises)

FCMSpec == Init /\ [][NextFCM]_vars

\* Approve requests served side by side: each reads (the lookup and the
\* conflict check, lines 266-278) and later writes (line 280 on), and the
\* requests interleave between the two.  The table is the one left after s1
\* has asked for slot 1, t1 has created a lesson for s2 at slot 1 and s2 has
\* edited it: two pending lessons of t1 at slot 1.
two_pending_at_one_date ==
    <<[id |-> 1, date |-> 1, student |-> "s1", teacher |-> "t1",
       duration |-> DefaultDuration, is_approved |-> FALSE, deleted |-> FALSE,
       topics |-> <<>>],
      [id |-> 2, date |-> 1, student |-> "s2", teacher |-> "t1",
       duration |-> DefaultDuration, is_approved |-> FALSE, deleted |-> FALSE,
       topics |-> <<>>]>>

InitRace ==
    /\ lessons = two_pending_at_one_date
    /\ served = [route |-> "update_lesson", topic_ids |-> 0]
    /\ response = [status |-> 200, message |-> "Lesson updated successfully.",
                   data |-> lessons[2]]
    /\ notified = notify("t1", "Lesson Updated")
    /\ inflight = Idle

\* The request r arrives and runs up to the conflict check: it ends in the
\* RouteError, or is past the check with nothing written yet.
ApproveCheck(r, user, lesson_id) ==
    /\ inflight[r].pc = "idle"
    /\ \E refused \in {approve_check(user, lesson_id)} :
          IF refused # None
          THEN /\ inflight' = [inflight EXCEPT ![r] =
                                  [pc |-> "refused", user |-> user,
                                   lesson_id |-> lesson_id]]
               /\ served' = [route |-> "approve_lesson", topic_ids |-> 0]
               /\ response' = refused[1]
               /\ notified' = NoPush
               /\ UNCHANGED lessons
          ELSE /\ inflight' = [inflight EXCEPT ![r] =
                                  [pc |-> "checked", user |-> user,
                                   lesson_id |-> lesson_id]]
               /\ UNCHANGED <<lessons, served, response, notified>>

\* The request r, past the check, writes and answers.
ApproveWrite(r) ==
    /\ inflight[r].pc = "checked"
    /\ \E after \in {approve_write(lessons, inflight[r].lesson_id)} :
          /\ inflight' = [inflight EXCEPT ![r].pc =
                             IF after.response.status = 200 THEN "approved"
                             ELSE "refused"]
          /\ served' = [route |-> "approve_lesson", topic_ids |-> 0]
          /\ lessons' = after.lessons
          /\ response' = after.response
          /\ notified' = after.notified

NextRace ==
    \/ \E r \in Requests, user \in Users, lesson_id \in RequestIds :
          ApproveCheck(r, user, lesson_id)
    \/ \E r \in Requests : ApproveWrite(r)

RaceSpec == InitRace /\ [][NextRace]_vars

\* ------------------------------------------------------------------ claims

Created == response.status = 201
Updated == response.status = 200 /\ response.message = "Lesson updated successfully."
Deleted == response.status = 200 /\ response.message = "Lesson deleted successfully."

\* C1: in every reachable state no two distinct lessons that both have the
\* approval flag set share the same date/time.
C1_NoTwoApprovedAtOneDate ==
    \A i, j \in LessonIds :
        (i # j /\ lessons[i].is_approved /\ lessons[j].is_approved)
            => lessons[i].date # lessons[j].date

\* Another lesson, already approved, at the date of lesson id.
OtherApprovedAt(id) ==
    \E j \in LessonIds :
        j # id /\ lessons[j].date = lessons[id].date /\ lessons[j].is_approved

\* C2: approve of lesson L by its teacher fails with 'There is another lesson
\* at the same time.' and leaves L's approval flag as it was whenever another
\* lesson at the identical date is already approved; otherwise it succeeds and
\* L's approval flag is true afterwards.
C2_ApproveConflict ==
    \A user \in Teachers, id \in LessonIds :
        lessons[id].teacher = user =>
            LET after == approve_lesson(user, id) IN
            IF OtherApprovedAt(id)
            THEN /\ after.response =
                        RouteError("There is another lesson at the same time.", 400)
                 /\ after.lessons[id].is_approved = lessons[id].is_approved
            ELSE /\ after.response.status = 200
                 /\ after.response.message = "Lesson approved."
                 /\ after.lessons[id].is_approved

\* An approve was refused for a conflict: a pending lesson shares its date
\* with an approved one.
C2_Witness ==
    /\ response = RouteError("There is another lesson at the same time.", 400)
    /\ \E i, j \in LessonIds :
          /\ i # j
          /\ lessons[i].date = lessons[j].date
          /\ ~ lessons[i].is_approved
          /\ lessons[j].is_approved

\* C3 as stated: a successful update, by the lesson's student or its teacher,
\* leaves the lesson's approval flag as it was.
C3_UpdateKeepsApproval ==
    \A user \in Users, id \in LessonIds, data \in Bodies :
        LET after == update_lesson(user, id, data) IN
        after.response.status = 200
            => after.lessons[id].is_approved = lessons[id].is_approved

\* C3 as amended: after a successful update the lesson's approval flag is set
\* exactly when the editor is a teacher (a student's edit clears it, a
\* teacher's edit sets it).
C3_UpdateSetsApprovalByEditor ==
    \A user \in Users, id \in LessonIds, data \in Bodies :
        LET after == update_lesson(user, id, data) IN
        after.response.status = 200
            => after.lessons[id].is_approved = (user \in Teachers)

\* A student's edit went through (the teacher is the one notified) and the
\* edited lesson is not approved.
C3_Witness ==
    /\ Updated
    /\ notified.to \in Teachers
    /\ ~ lessons[response.data.id].is_approved

\* C4: a lesson created by a teacher is persisted approved, one created by a
\* student is persisted not approved.
C4_CreateApproval ==
    \A user \in Users, data \in Bodies :
        LET after == new_lesson(user, data)
            id == Cardinality(LessonIds) + 1
        IN  after.response.status = 201 =>
                /\ id \notin LessonIds
                /\ id \in DOMAIN after.lessons
                /\ after.lessons[id].is_approved = (user \in Teachers)

\* A student's lesson has just been persisted, pending, beside a teacher's
\* approved one.
C4_Witness ==
    /\ Created
    /\ response.data.student = "s1"
    /\ notified.to = "t1"
    /\ lessons[response.data.id] = response.data
    /\ ~ response.data.is_approved
    /\ \E i \in LessonIds : lessons[i].teacher = "t2" /\ lessons[i].is_approved

Unavailable(student, date) == date \notin available_hours(teacher_of(student))

\* C5 as stated: a student's request for a new lesson at a date that is not
\* among the assigned teacher's available slots fails with 'This hour is not
\* available.' and persists nothing; a lesson a student creates has the
\* assigned teacher and that teacher's duration.
C5_UnavailableHourRefused ==
    \A user \in Students, data \in Bodies :
        LET after == new_lesson(user, data) IN
        /\ (has(data, "date") /\ Unavailable(user, data["date"])) =>
               /\ after.response = RouteError("This hour is not available.", 400)
               /\ after.lessons = lessons
        /\ after.response.status = 201 =>
               /\ after.response.data.teacher = teacher_of(user)
               /\ after.response.data.duration = lesson_duration(teacher_of(user))

\* C5 as amended: a student's request for a new lesson at a date that is not
\* in the past and not among the assigned teacher's available slots fails with
\* 'This hour is not available.'; at any date not among those slots it fails
\* and persists nothing; a lesson a student creates has the assigned teacher
\* and that teacher's duration, whatever the request carries.
C5_FutureUnavailableHourRefused ==
    \A user \in Students, data \in Bodies :
        LET after == new_lesson(user, data) IN
        /\ (has(data, "date") /\ Unavailable(user, data["date"])) =>
               /\ after.response.status = 400
               /\ after.lessons = lessons
               /\ data["date"] >= utcnow =>
                      after.response = RouteError("This hour is not available.", 400)
        /\ after.response.status = 201 =>
               LET row == after.lessons[Cardinality(LessonIds) + 1] IN
               /\ row = after.response.data
               /\ row.teacher = teacher_of(user)
               /\ row.duration = lesson_duration(teacher_of(user))

\* A create has just been refused for the hour: the table holds one lesson,
\* and it covers the only slot that is not available.
C5_Witness ==
    /\ served.route = "new_lesson"
    /\ response = RouteError("This hour is not available.", 400)
    /\ Cardinality(LessonIds) = 1
    /\ \E d \in Dates : d >= utcnow /\ Unavailable("s2", d)

\* C6: (a) a student's create at a slot that an approved lesson of another
\* student of the same teacher occupies fails; (b) a student's edit of their
\* own lesson that submits the lesson's current date succeeds, available or
\* not; (c) an edit that submits another date, one that is not available,
\* fails with 'This hour is not available.'.
C6_SelfExemption ==
    /\ \A user \in Students, data \in Bodies :
          (/\ has(data, "date")
           /\ \E j \in LessonIds :
                 /\ lessons[j].is_approved
                 /\ ~ lessons[j].deleted
                 /\ lessons[j].date = data["date"]
                 /\ lessons[j].teacher = teacher_of(user)
                 /\ lessons[j].student # user)
          => /\ new_lesson(user, data).response.status = 400
             /\ new_lesson(user, data).lessons = lessons
    /\ \A user \in Students, id \in LessonIds, data \in Bodies :
          (lessons[id].student = user /\ has(data, "date")) =>
              LET after == update_lesson(user, id, data) IN
              IF data["date"] = lessons[id].date
              THEN /\ after.response.status = 200
                   /\ after.lessons[id].date = data["date"]
              ELSE Unavailable(user, data["date"]) =>
                     /\ after.response = RouteError("This hour is not available.", 400)
                     /\ after.lessons = lessons

\* A student's edit has just gone through at a date that another lesson of the
\* teacher, not deleted, covers: the hour was not available to the edit.
C6_Witness ==
    /\ served.route = "update_lesson"
    /\ Updated
    /\ notified.to \in Teachers
    /\ lessons[response.data.id] = response.data
    /\ \E j \in LessonIds :
          /\ j # response.data.id
          /\ lessons[j].teacher = response.data.teacher
          /\ ~ lessons[j].deleted
          /\ lessons[j].date = response.data.date

\* C7: after a successful delete the lesson's deleted flag is true and the row
\* is still there and retrievable by id; no request removes a row.
C7_SoftDelete ==
    /\ \A user \in Users, id \in RequestIds :
          LET after == delete_lesson(user, id) IN
          /\ LessonIds \subseteq DOMAIN after.lessons
          /\ after.response.status = 200 =>
                /\ id \in DOMAIN after.lessons
                /\ after.lessons[id].deleted
                /\ lesson(after.lessons, user, id).status = 200
                /\ lesson(after.lessons, user, id).data.deleted
    /\ \A user \in Users, id \in RequestIds :
          LessonIds \subseteq DOMAIN approve_lesson(user, id).lessons
    /\ \A user \in Users, data \in Bodies :
          /\ LessonIds \subseteq DOMAIN new_lesson(user, data).lessons
          /\ \A id \in RequestIds :
                LessonIds \subseteq DOMAIN update_lesson(user, id, data).lessons

\* A delete has just gone through; the deleted row is read back by its teacher.
C7_Witness ==
    /\ served.route = "delete_lesson"
    /\ Deleted
    /\ \E id \in LessonIds :
          /\ lessons[id].deleted
          /\ lesson(lessons, lessons[id].teacher, id).status = 200
          /\ lesson(lessons, lessons[id].teacher, id).data.deleted

\* C8: an approve of a lesson that is not among the requesting teacher's own
\* fails with 'Lesson does not exist' (404) and changes no lesson; an approve
\* by a user who is no teacher changes no lesson; whenever an approve sets a
\* lesson's approval flag, the requesting user is that lesson's teacher.
C8_OnlyOwnTeacherApproves ==
    \A user \in Users, id \in RequestIds :
        LET after == approve_lesson(user, id) IN
        /\ (user \in Teachers /\ ~ (id \in LessonIds /\ lessons[id].teacher = user)) =>
               /\ after.response = RouteError("Lesson does not exist", 404)
               /\ after.lessons = lessons
        /\ user \notin Teachers =>
               /\ after.response.status # 200
               /\ after.lessons = lessons
        /\ \A i \in LessonIds :
               (~ lessons[i].is_approved /\ after.lessons[i].is_approved)
                   => lessons[i].teacher = user

\* A teacher's approve has just been refused with 404 (students are stopped
\* before the lookup) while a pending lesson is in the table.
C8_Witness ==
    /\ served.route = "approve_lesson"
    /\ response = RouteError("Lesson does not exist", 404)
    /\ \E i \in LessonIds : ~ lessons[i].is_approved

\* C9: a create without a date fails; a create at a date before the current
\* time fails with 'Date is not valid.'; both persist nothing.  An update that
\* submits a date is never answered 'Date is not valid.', past or not, and a
\* teacher's update of an own lesson for an existing student succeeds at a
\* past date.
C9_PastDate ==
    /\ \A user \in Users, data \in Bodies :
          LET after == new_lesson(user, data) IN
          /\ ~ has(data, "date") =>
                 after.response.status = 400 /\ after.lessons = lessons
          /\ (has(data, "date") /\ data["date"] < utcnow) =>
                 /\ after.response = RouteError("Date is not valid.", 400)
                 /\ after.lessons = lessons
    /\ \A user \in Users, id \in LessonIds, data \in Bodies :
          has(data, "date") =>
              LET after == update_lesson(user, id, data) IN
              /\ after.response # RouteError("Date is not valid.", 400)
              /\ (/\ data["date"] < utcnow
                  /\ lessons[id].teacher = user
                  /\ Student_get_by_id(data) # None)
                 => /\ after.response.status = 200
                    /\ after.lessons[id].date = data["date"]

\* An update has just moved a lesson to a date in the past.
C9_Witness ==
    /\ served.route = "update_lesson"
    /\ Updated
    /\ response.data.date < utcnow
    /\ lessons[response.data.id].date < utcnow

\* The topic ids among (key, topic_id) pairs, and the key each is first met with.
SubmittedIds(pairs) == {pairs[k].topic_id : k \in DOMAIN pairs}
FirstBucket(pairs, t) ==
    LET first == CHOOSE k \in DOMAIN pairs :
                     /\ pairs[k].topic_id = t
                     /\ \A j \in 1 .. (k - 1) : pairs[j].topic_id # t
    IN  pairs[first].key

\* C10: one submission whose ids all exist, duplicates within a bucket or
\* across the buckets included, adds exactly one association per distinct
\* submitted id to the lesson, with the finished flag of the bucket the id is
\* first met in, and leaves the associations the lesson had.
C10_OneAssociationPerId ==
    \A user \in Teachers, id \in LessonIds, topics \in Submissions :
        \A pairs \in {items(topics)} :
            SubmittedIds(pairs) \subseteq Topics =>
                \A after \in {update_topics(user, id, topics)} :
                    LET old == lessons[id].topics
                        new == after.lessons[id].topics
                    IN  /\ after.response.status = 201
                        /\ Len(new) = Len(old) + Cardinality(SubmittedIds(pairs))
                        /\ SubSeq(new, 1, Len(old)) = old
                        /\ \A t \in SubmittedIds(pairs) :
                              \E k \in (Len(old) + 1) .. Len(new) :
                                  /\ new[k].topic_id = t
                                  /\ new[k].is_finished =
                                         (FirstBucket(pairs, t) = FINISHED_KEY)
                                  /\ \A j \in (Len(old) + 1) .. Len(new) :
                                        new[j].topic_id = t => j = k

\* A submission of two ids has just gone through and the lesson, which had no
\* association before, holds a single one: the two ids were the same topic.
C10_Witness ==
    /\ served = [route |-> "update_topics", topic_ids |-> 2]
    /\ response.status = 201
    /\ Len(response.data.topics) = 1
    /\ lessons[response.data.id] = response.data

\* C11: every lesson holds at most one association per topic id.
C11_OneAssociationPerTopic ==
    \A i \in DOMAIN lessons :
        \A a, b \in DOMAIN lessons[i].topics :
            lessons[i].topics[a].topic_id = lessons[i].topics[b].topic_id => a = b

\* The student of the lesson has an association that marks the topic finished
\* in another lesson.
FinishedInAnotherLesson(id, t) ==
    \E j \in LessonIds \ {id} :
        /\ lessons[j].student = lessons[id].student
        /\ \E k \in DOMAIN lessons[j].topics :
              lessons[j].topics[k] = [is_finished |-> TRUE, topic_id |-> t]

FinishedInLesson(id, t) ==
    \E k \in DOMAIN lessons[id].topics :
        lessons[id].topics[k] = [is_finished |-> TRUE, topic_id |-> t]

\* C12 (as stated): for every lesson, the available set of the topics query
\* holds no topic the student finished in a different lesson and holds every
\* topic marked finished in the lesson queried.
C12_AvailableExcludesFinishedElsewhere ==
    \A id \in LessonIds, student \in {None} \cup {Some(s) : s \in Students},
       lesson_number \in LessonNumbers :
        \A answer \in {get_topics(id, student, lesson_number)} :
            /\ answer.status = 200
            /\ \A t \in answer.available : ~FinishedInAnotherLesson(id, t)
            /\ \A t \in Topics : FinishedInLesson(id, t) => t \in answer.available

\* C12 (amended): for every lesson, the available set of the topics query
\* holds a topic the student finished in a different lesson only if the topic
\* is marked finished in the lesson queried too, and holds every topic marked
\* finished in the lesson queried.
C12_AvailableExcludesFinishedOnlyElsewhere ==
    \A id \in LessonIds, student \in {None} \cup {Some(s) : s \in Students},
       lesson_number \in LessonNumbers :
        \A answer \in {get_topics(id, student, lesson_number)} :
            /\ answer.status = 200
            /\ \A t \in answer.available :
                  FinishedInAnotherLesson(id, t) => FinishedInLesson(id, t)
            /\ \A t \in Topics : FinishedInLesson(id, t) => t \in answer.available

\* Topic 1 is finished in lesson 1 only and topic 2 in lesson 2 only: the
\* query for lesson 2 offers topic 2 and not topic 1, whatever the number.
C12_Witness ==
    /\ served.route = "update_topics"
    /\ FinishedInLesson(1, 1) /\ ~FinishedInLesson(2, 1)
    /\ FinishedInLesson(2, 2) /\ ~FinishedInLesson(1, 2)
    /\ \A lesson_number \in LessonNumbers :
          get_topics(2, None, lesson_number).available = {2}

\* Two requests that name two distinct lessons at the same date.
SameDate(r, q) ==
    /\ r # q
    /\ inflight[r].lesson_id # inflight[q].lesson_id
    /\ lessons[inflight[r].lesson_id].date = lessons[inflight[q].lesson_id].date

\* C13: when two approve requests for two distinct lessons at the same date
\* are both past the conflict check and neither has written, both writes go
\* through, in either order: each answers "Lesson approved." and the table
\* then holds both lessons approved at that date.
C13_BothApproved ==
    \A r, q \in Requests :
        (/\ inflight[r].pc = "checked"
         /\ inflight[q].pc = "checked"
         /\ SameDate(r, q)) =>
            \A first \in {approve_write(lessons, inflight[r].lesson_id)} :
                \A second \in {approve_write(first.lessons, inflight[q].lesson_id)} :
                    /\ first.response = [status |-> 200, message |-> "Lesson approved."]
                    /\ second.response = [status |-> 200, message |-> "Lesson approved."]
                    /\ second.lessons[inflight[r].lesson_id].is_approved
                    /\ second.lessons[inflight[q].lesson_id].is_approved

\* Both requests have written: two approved lessons at one date, neither of
\* which was approved when the requests arrived.
C13_Witness ==
    /\ \A r \in Requests : inflight[r].pc = "approved"
    /\ SameDate(1, 2)
    /\ \A r \in Requests : lessons[inflight[r].lesson_id].is_approved
    /\ response = [status |-> 200, message |-> "Lesson approved."]
    /\ \A i \in DOMAIN two_pending_at_one_date : ~two_pending_at_one_date[i].is_approved

\* C14: a create that succeeds pushes "New Lesson!" to the party that did not
\* send the request, when that party holds a push token, and to nobody
\* otherwise: to the teacher of the student who created the lesson, to the
\* student a teacher created it for, and never to the sender.
C14_PushToTheOtherParty ==
    \A user \in Users, data \in Bodies :
        \A after \in {new_lesson(user, data)} :
            after.response.status = 201 =>
                LET row == after.response.data
                    other == IF user \in Students THEN row.teacher ELSE row.student
                IN  /\ user \in Students => other = teacher_of(user)
                    /\ other # user
                    /\ after.notified.to # user
                    /\ after.notified =
                           IF firebase_token(other)
                           THEN [to |-> other, title |-> "New Lesson!"]
                           ELSE NoPush

\* A teacher has just created a lesson and its student has been pushed.
C14_Witness ==
    /\ served.route = "new_lesson"
    /\ Created
    /\ response.data.is_approved
    /\ response.data.teacher \in Teachers
    /\ notified = [to |-> response.data.student, title |-> "New Lesson!"]

\* C15: whenever create, update, delete or approve dispatches its push, the
\* table the push leaves behind is the written one, also when the push raises:
\* the request then answers with a server error and the lesson is still
\* created (its row is in the table), updated (its row carries the date of the
\* request and the approval of the sender's role), deleted (flag set) or
\* approved (flag set).
C15_WriteSurvivesPush ==
    /\ \A user \in Users, data \in Bodies :
          \A sent \in {new_lesson(user, data)} :
              sent.notified # NoPush =>
                  \A raised \in {FCM_notify(TRUE, sent)} :
                      /\ raised.response = ServerError
                      /\ raised.lessons = sent.lessons
                      /\ DOMAIN raised.lessons = 1 .. (Cardinality(LessonIds) + 1)
                      /\ raised.lessons[Cardinality(LessonIds) + 1].date = data["date"]
                      /\ \A i \in LessonIds : raised.lessons[i] = lessons[i]
    /\ \A user \in Users, id \in RequestIds, data \in Bodies :
          \A sent \in {update_lesson(user, id, data)} :
              sent.notified # NoPush =>
                  \A raised \in {FCM_notify(TRUE, sent)} :
                      /\ raised.response = ServerError
                      /\ raised.lessons = sent.lessons
                      /\ raised.lessons[id].date = data["date"]
                      /\ raised.lessons[id].is_approved = (user \in Teachers)
    /\ \A user \in Users, id \in RequestIds :
          \A sent \in {delete_lesson(user, id)} :
              sent.notified # NoPush =>
                  \A raised \in {FCM_notify(TRUE, sent)} :
                      /\ raised.response = ServerError
                      /\ raised.lessons = sent.lessons
                      /\ raised.lessons[id].deleted
    /\ \A user \in Users, id \in RequestIds :
          \A sent \in {approve_lesson(user, id)} :
              sent.notified # NoPush =>
                  \A raised \in {FCM_notify(TRUE, sent)} :
                      /\ raised.response = ServerError
                      /\ raised.lessons = sent.lessons
                      /\ raised.lessons[id].is_approved

\* A delete has just met a push that raised: the request answered with the
\* server error and the lesson is deleted.
C15_Witness ==
    /\ served.route = "delete_lesson"
    /\ response = ServerError
    /\ \E i \in LessonIds : lessons[i].deleted

\* C16: an update or a delete that names a lesson of another user (a lesson
\* that is neither taught by the teacher who asks nor taken by the student who
\* asks) fails with "Lesson does not exist", pushes nothing and leaves the
\* table as it was.
C16_OnlyOwnLessons ==
    \A user \in Users, id \in LessonIds :
        user \notin {lessons[id].teacher, lessons[id].student} =>
            /\ \A after \in {delete_lesson(user, id)} :
                  /\ after.response = RouteError("Lesson does not exist.", 400)
                  /\ after.lessons = lessons
                  /\ after.notified = NoPush
            /\ \A data \in Bodies :
                  \A after \in {update_lesson(user, id, data)} :
                      /\ after.response = RouteError("Lesson does not exist", 404)
                      /\ after.lessons = lessons
                      /\ after.notified = NoPush

\* A delete has just been refused while the table holds a lesson that is not
\* deleted and a user it does not belong to.
C16_Witness ==
    /\ served.route = "delete_lesson"
    /\ response = RouteError("Lesson does not exist.", 400)
    /\ \E user \in Users, i \in LessonIds :
          /\ user \notin {lessons[i].teacher, lessons[i].student}
          /\ ~lessons[i].deleted

\* The statuses of a RouteError.
ValidationError(answer) == answer.status \in {400, 401, 404}

\* C17: a create, update, approve or delete that ends in a validation error
\* leaves the table exactly as it was and pushes nothing; and the errors the
\* claim lists are such ends: a create without a date, at a past date or, by
\* a student, at a slot that is taken, a create by a teacher that names no
\* student, a request for a lesson id the
\* table does not hold, an approve of a lesson with another approved lesson at
\* its date.
C17_ErrorChangesNothing ==
    /\ \A user \in Users, data \in Bodies :
          \A after \in {new_lesson(user, data)} :
              /\ ValidationError(after.response) =>
                     after.lessons = lessons /\ after.notified = NoPush
              /\ (\/ ~has(data, "date")
                  \/ data["date"] < utcnow
                  \/ user \in Students /\ Unavailable(user, data["date"])
                  \/ user \in Teachers /\ ~has(data, "student_id")) =>
                     ValidationError(after.response)
    /\ \A user \in Users, id \in RequestIds, data \in Bodies :
          \A after \in {update_lesson(user, id, data)} :
              /\ ValidationError(after.response) =>
                     after.lessons = lessons /\ after.notified = NoPush
              /\ (id \notin LessonIds \/ ~has(data, "date")) =>
                     ValidationError(after.response)
    /\ \A user \in Users, id \in RequestIds :
          /\ \A after \in {delete_lesson(user, id)} :
                /\ ValidationError(after.response) =>
                       after.lessons = lessons /\ after.notified = NoPush
                /\ id \notin LessonIds => ValidationError(after.response)
          /\ \A after \in {approve_lesson(user, id)} :
                /\ ValidationError(after.response) =>
                       after.lessons = lessons /\ after.notified = NoPush
                /\ (id \notin LessonIds \/ OtherApprovedAt(id)) =>
                       ValidationError(after.response)

\* An approve has just been refused for the conflict: the lesson it named is
\* still pending and nothing was pushed.
C17_Witness ==
    /\ served.route = "approve_lesson"
    /\ response = RouteError("There is another lesson at the same time.", 400)
    /\ notified = NoPush
    /\ \E i \in LessonIds : ~lessons[i].is_approved /\ OtherApprovedAt(i)

\* C18: a submission by a teacher for a lesson of the table that carries an id
\* of no topic fails with "Topic does not exist." and leaves every lesson's
\* associations as they were, the valid ids met before the bad one included.
C18_AllOrNothing ==
    \A user \in Teachers, id \in LessonIds, topics \in Submissions :
        \A pairs \in {items(topics)} :
            ~(SubmittedIds(pairs) \subseteq Topics) =>
                \A after \in {update_topics(user, id, topics)} :
                    /\ after.response = RouteError("Topic does not exist.", 400)
                    /\ after.lessons = lessons
                    /\ after.notified = NoPush

\* A submission of two ids has just been refused for its topic, and some
\* submission of a valid id followed by an id of no topic gets this response
\* here; the lessons hold one association between them, from an earlier
\* submission.
C18_Witness ==
    /\ served = [route |-> "update_topics", topic_ids |-> 2]
    /\ response = RouteError("Topic does not exist.", 400)
    /\ \E topics \in Submissions :
          /\ Len(items(topics)) = 2
          /\ items(topics)[1].topic_id \in Topics
          /\ items(topics)[2].topic_id \notin Topics
          /\ update_topics("t1", 1, topics).response = response
    /\ Sum([i \in LessonIds |-> Len(lessons[i].topics)]) = 1

\* The lessons that are deleted in the table stay deleted in the other table.
StayDeleted(table) ==
    \A i \in LessonIds : lessons[i].deleted => i \in DOMAIN table /\ table[i].deleted

\* C19: no update, approve, delete or topic submission (and no create) clears
\* the deleted flag of a lesson that has it set, whoever sends it and whatever
\* it carries.
C19_DeletedStaysDeleted ==
    /\ \A user \in Users, id \in RequestIds :
          /\ StayDeleted(delete_lesson(user, id).lessons)
          /\ StayDeleted(approve_lesson(user, id).lessons)
          /\ \A data \in Bodies : StayDeleted(update_lesson(user, id, data).lessons)
    /\ \A user \in Users, data \in Bodies : StayDeleted(new_lesson(user, data).lessons)
    /\ \A user \in Teachers, id \in LessonIds, topics \in Submissions :
          StayDeleted(update_topics(user, id, topics).lessons)

\* An update of a deleted lesson has just gone through and the lesson is still
\* deleted.
C19_Witness ==
    /\ served.route = "update_lesson"
    /\ Updated
    /\ response.data.deleted
    /\ lessons[response.data.id] = response.data

\* C20: for every lesson, the progress list and the finished list of the
\* topics query have no topic id in common.
C20_ProgressAndFinishedDisjoint ==
    \A id \in LessonIds, lesson_number \in LessonNumbers :
        \A answer \in {get_topics(id, None, lesson_number)} :
            Range(answer.progress) \cap Range(answer.finished) = {}

====
